---- MODULE Spec2Model ----
(***************************************************************************)
(* CachedReader (core/state/cached_reader.go): a read-through cache in     *)
(* front of a StateReader.  The State Cache (shards.StateCache), the       *)
(* PlainStateReader and the key-value store's Walk are collaborators whose *)
(* code is outside core/state; they follow the design document.            *)
(***************************************************************************)
EXTENDS Integers, Sequences, FiniteSets, TLC

\* ------------------------------------------------------------------ bounds
NumAddresses == 2
NumTrieKeys == 2
NumIncarnations == 2

\* line 153: the largest code blob the reader caches
CodeSizeLimit == 1024

\* --------------------------------------------------------------- universes
\* Addresses are 1..NumAddresses.  ShaTable gives the hashed address (two
\* bytes here) of each: f0a9, f0b1, f1c0, 02d0, f0e3.
ShaTable == << <<240, 169>>, <<240, 177>>, <<241, 192>>, <<2, 208>>, <<240, 227>> >>
\* Nibble-path keys that the trie-node bucket may hold: f0, f, f1, 0.
TrieKeyTable == << <<15, 0>>, <<15>>, <<15, 1>>, <<0>> >>

Addresses == 1..NumAddresses
TrieKeys == {TrieKeyTable[i] : i \in 1..NumTrieKeys}

NoErr == "ok"
StoreError == "StoreError"
DecodeError == "DecodeError"
\* A run-time panic: the call ends without returning.
Panic == "panic"

\* The dynamic type of the StateReader that NewCachedReader wrapped.
PlainStateReader == "PlainStateReader"
OtherStateReader == "OtherStateReader"
ReaderTypes == {PlainStateReader, OtherStateReader}

NilKey == << >>
NilAccount == << >>
NoValue == << >>
BadRecord == <<255>>
EncodeAccount(a) == <<1, a>>

\* Encoded trie-node values: bit 1 hasState, bit 2 hasTree, bit 4 hasHash.
TrieNodeValues == {<<2>>, <<5>>}

VARIABLES
    dbAccounts,     \* plain account bucket: address -> encoded record, NoValue if none
    dbHashed,       \* hashed account bucket: ascending <<hashed address, encoded record>>
    dbTrie,         \* trie-node bucket: ascending <<nibble key, encoded node>>
    accountCache,   \* State Cache accounts, keyed by hashed address
    trieIndex,      \* State Cache trie prefix index
    everAbsent,     \* addresses for which ReadAccountData has returned Absent
    dbStorage,      \* storage bucket: slot -> value, empty if none
    storageCache,   \* State Cache storage, keyed by <<address, incarnation, key>>
    dbCode,         \* code as the underlying reader returns it, per <<address, incarnation>>
    codeCache,      \* State Cache code, keyed by <<address, incarnation>>
    dbIncarnation,  \* incarnation the underlying reader reports per address
    deletedAccounts,\* State Cache deleted-account markers
    reader,         \* dynamic type of the underlying StateReader cr.r
    lastCall        \* the most recent call and what it did

accountVars == <<dbAccounts, dbHashed, dbTrie, accountCache, trieIndex, everAbsent>>
storageVars == <<dbStorage, storageCache>>
codeVars == <<dbCode, codeCache>>
incarnationVars == <<dbIncarnation, deletedAccounts>>
vars == <<accountVars, storageVars, codeVars, incarnationVars, reader, lastCall>>

\* ---------------------------------------------------------- byte helpers
IsPrefix(p, s) == Len(p) <= Len(s) /\ SubSeq(s, 1, Len(p)) = p

RECURSIVE LexLess(_, _)
LexLess(a, b) ==
    IF a = << >> THEN b # << >>
    ELSE IF b = << >> THEN FALSE
    ELSE IF Head(a) # Head(b) THEN Head(a) < Head(b)
    ELSE LexLess(Tail(a), Tail(b))

\* Ascending sequence of a set of <<key, value>> pairs with distinct keys.
RECURSIVE SortEntries(_)
SortEntries(S) ==
    IF S = {} THEN << >>
    ELSE LET m == CHOOSE x \in S : \A y \in S : y = x \/ LexLess(x[1], y[1])
         IN <<m>> \o SortEntries(S \ {m})

\* hexutil.DecompressNibbles: every byte becomes its high and low nibble.
RECURSIVE DecompressNibbles(_)
DecompressNibbles(bytes) ==
    IF bytes = << >> THEN << >>
    ELSE <<Head(bytes) \div 16, Head(bytes) % 16>> \o DecompressNibbles(Tail(bytes))

\* hexutil.CompressNibbles: pairs of nibbles become bytes (even length).
RECURSIVE CompressNibbles(_)
CompressNibbles(nibbles) ==
    IF Len(nibbles) < 2 THEN << >>
    ELSE <<nibbles[1] * 16 + nibbles[2]>> \o CompressNibbles(SubSeq(nibbles, 3, Len(nibbles)))

Sha(address) == ShaTable[address]

HashedKeys == {Sha(a) : a \in Addresses}

\* ------------------------------------------------------ the backing store
\* Walk's prefix test: the first fixedBits bits of k equal those of startKey.
Pow2(n) == IF n = 0 THEN 1 ELSE IF n = 1 THEN 2 ELSE IF n = 2 THEN 4 ELSE IF n = 3 THEN 8
           ELSE IF n = 4 THEN 16 ELSE IF n = 5 THEN 32 ELSE IF n = 6 THEN 64
           ELSE IF n = 7 THEN 128 ELSE 256

MaskByte(b, bits) == b - (b % Pow2(8 - bits))

SharesBits(k, startKey, fixedBits) ==
    LET full == fixedBits \div 8
        rest == fixedBits % 8
    IN  /\ Len(k) >= full + (IF rest = 0 THEN 0 ELSE 1)
        /\ Len(startKey) >= full + (IF rest = 0 THEN 0 ELSE 1)
        /\ SubSeq(k, 1, full) = SubSeq(startKey, 1, full)
        /\ rest # 0 => MaskByte(k[full + 1], rest) = MaskByte(startKey[full + 1], rest)

\* Walk(bucket, startKey, fixedBits, visit): the entries visit is offered,
\* ascending from startKey while they share startKey's first fixedBits bits.
RECURSIVE WalkEntries(_, _, _)
WalkEntries(bucket, startKey, fixedBits) ==
    IF bucket = << >> THEN << >>
    ELSE IF LexLess(Head(bucket)[1], startKey)
    THEN WalkEntries(Tail(bucket), startKey, fixedBits)
    ELSE IF SharesBits(Head(bucket)[1], startKey, fixedBits)
    THEN <<Head(bucket)>> \o WalkEntries(Tail(bucket), startKey, fixedBits)
    ELSE << >>

\* accounts.Account.DecodeForStorage
DecodeForStorage(v) ==
    IF v = BadRecord THEN [acc |-> NilAccount, err |-> DecodeError]
    ELSE [acc |-> <<v[2]>>, err |-> NoErr]

\* PlainStateReader.ReadAccountData: one point lookup of the address.
StoreReadAccountData(address, fails) ==
    IF fails THEN [acc |-> NilAccount, err |-> StoreError]
    ELSE IF dbAccounts[address] = NoValue THEN [acc |-> NilAccount, err |-> NoErr]
    ELSE DecodeForStorage(dbAccounts[address])

\* trie.UnmarshalTrieNodeTyped
UnmarshalTrieNodeTyped(v) ==
    [hasState |-> v[1] % 2 = 1,
     hasTree  |-> (v[1] \div 2) % 2 = 1,
     hasHash  |-> (v[1] \div 4) % 2 = 1]

\* --------------------------------------------------------- the State Cache
Unknown == [state |-> "unknown", acc |-> NilAccount]
AbsentEntry == [state |-> "absent", acc |-> NilAccount]
PresentEntry(acc) == [state |-> "present", acc |-> acc]

NoDescriptor ==
    [present |-> FALSE, hasState |-> FALSE, hasTree |-> FALSE, hasHash |-> FALSE,
     loaded |-> FALSE]

GetAccountByHashedAddress(cache, h) ==
    [ok |-> cache[h].state # "unknown", acc |-> cache[h].acc]

GetAccount(cache, address) == GetAccountByHashedAddress(cache, Sha(address))

SetAccountAbsent(cache, address) == [cache EXCEPT ![Sha(address)] = AbsentEntry]

SetAccountRead(cache, address, acc) == [cache EXCEPT ![Sha(address)] = PresentEntry(acc)]

DeprecatedSetAccountRead(cache, h, acc) == [cache EXCEPT ![h] = PresentEntry(acc)]

\* Insert: inserts or overwrites the descriptor at key k.
SetAccountTrieRead(index, k, hasState, hasTree, hasHash) ==
    [index EXCEPT ![k] = [present |-> TRUE, hasState |-> hasState, hasTree |-> hasTree,
                          hasHash |-> hasHash, loaded |-> FALSE]]

MarkAccountTrieAsLoaded(index, k) == [index EXCEPT ![k].loaded = TRUE]

\* FindDeepestPrefix: the longest stored key that is a prefix of the path.
FindDeepestAccountTrie(index, nibbles) ==
    LET cands == {k \in DOMAIN index : index[k].present /\ IsPrefix(k, nibbles)}
    IN  IF cands = {}
        THEN [ihK |-> NilKey, hasState |-> FALSE, alreadyLoaded |-> FALSE, trieMiss |-> TRUE]
        ELSE LET k == CHOOSE x \in cands : \A y \in cands : Len(y) <= Len(x)
             IN  [ihK |-> k, hasState |-> index[k].hasState,
                  alreadyLoaded |-> index[k].loaded, trieMiss |-> FALSE]

\* ------------------------------------------------------- call bookkeeping
Ev(e, k) == [e |-> e, k |-> k, hasState |-> FALSE, loaded |-> FALSE, trieMiss |-> FALSE]

FindEv(f) ==
    [e |-> "find", k |-> f.ihK, hasState |-> f.hasState, loaded |-> f.alreadyLoaded,
     trieMiss |-> f.trieMiss]

Ret(cache, index, acc, err, trace) ==
    [cache |-> cache, index |-> index, acc |-> acc, err |-> err, trace |-> trace]

StoreEvents == {"walkTrie", "walkAccounts", "get"}

RECURSIVE CountEvents(_, _)
CountEvents(trace, names) ==
    IF trace = << >> THEN 0
    ELSE (IF Head(trace).e \in names THEN 1 ELSE 0) + CountEvents(Tail(trace), names)

StoreOps(call) == CountEvents(call.trace, StoreEvents)

\* The store's interactions within one call are numbered from 1: every cursor
\* step of a Walk (one per entry yielded, one more to find the range exhausted)
\* and every point lookup.  Fault j > 0 makes the j-th interaction fail with a
\* StoreError; fault 0, or one beyond the call's interactions, means no failure.
FaultPoints == 0..(NumTrieKeys + NumAddresses + 2)

\* -------------------------------------------- CachedReader.ReadAccountData
\* Variant: the hit test looks at the account pointer instead of the ok flag.
DirectHit_NonNilOnly(cache, address) ==
    LET g == GetAccount(cache, address)
    IN  [ok |-> g.ok /\ g.acc # NilAccount, acc |-> g.acc]

\* lines 30-33: the direct hit
DirectHit(cache, address) == GetAccount(cache, address)

\* lines 59-62: the trie-node Walk's callback applied to the first n entries
RECURSIVE InsertTrieNodes(_, _, _)
InsertTrieNodes(index, entries, n) ==
    IF n = 0 \/ entries = << >> THEN index
    ELSE LET k == Head(entries)[1]
             u == UnmarshalTrieNodeTyped(Head(entries)[2])
         IN  InsertTrieNodes(SetAccountTrieRead(index, k, u.hasState, u.hasTree, u.hasHash),
                             Tail(entries), n - 1)

\* lines 59 and 93: cr.r.(*PlainStateReader), a type assertion without the
\* ok form, succeeds for that type alone and panics for every other
IsPlainStateReader(r) == r = PlainStateReader

\* lines 58-65: on trieMiss, one Walk over the trie-node bucket from ihK
WarmTrieIndex(index, ihK, fault) ==
    LET entries == WalkEntries(dbTrie, ihK, Len(ihK) * 8)
        steps   == Len(entries) + 1
        fails   == fault >= 1 /\ fault <= steps
        n       == IF fails THEN fault - 1 ELSE Len(entries)
    IN  IF ~IsPlainStateReader(reader)
        THEN [index |-> index, err |-> Panic, rest |-> 0, trace |-> << >>]
        ELSE [index |-> InsertTrieNodes(index, entries, n),
              err   |-> IF fails THEN StoreError ELSE NoErr,
              rest  |-> IF fault > steps THEN fault - steps ELSE 0,
              trace |-> <<Ev("walkTrie", ihK)>>
                        \o [i \in 1..n |-> Ev("insert", entries[i][1])]]

\* Variant: the point lookup's result is returned but not cached.
PointLookupFallback_NoCache(cache, index, address, trace, fault) ==
    LET r == StoreReadAccountData(address, fault = 1)
    IN  Ret(cache, index, r.acc, r.err, trace \o <<Ev("get", NilKey)>>)

\* Variant: a failed lookup leaves the address cached as Absent.
PointLookupFallback_CacheOnError(cache, index, address, trace, fault) ==
    LET r == StoreReadAccountData(address, fault = 1)
        t == trace \o <<Ev("get", NilKey)>>
    IN  IF r.acc = NilAccount
        THEN Ret(SetAccountAbsent(cache, address), index, NilAccount, r.err,
                 t \o <<Ev("setAbsent", Sha(address))>>)
        ELSE Ret(SetAccountRead(cache, address, r.acc), index, r.acc, NoErr,
                 t \o <<Ev("setRead", Sha(address))>>)

\* lines 69-80: no prefix matched: one point lookup, cached for this address
PointLookupFallback(cache, index, address, trace, fault) ==
    LET r == StoreReadAccountData(address, fault = 1)
        t == trace \o <<Ev("get", NilKey)>>
    IN  IF r.err # NoErr THEN Ret(cache, index, NilAccount, r.err, t)
        ELSE IF r.acc = NilAccount
        THEN Ret(SetAccountAbsent(cache, address), index, NilAccount, NoErr,
                 t \o <<Ev("setAbsent", Sha(address))>>)
        ELSE Ret(SetAccountRead(cache, address, r.acc), index, r.acc, NoErr,
                 t \o <<Ev("setRead", Sha(address))>>)

\* Variant: the test forgets alreadyLoaded.
IsAuthoritativeNegative_NoStateOnly(f) == ~f.hasState

\* line 81: the matched descriptor answers the query without the store
IsAuthoritativeNegative(f) == ~f.hasState \/ f.alreadyLoaded

\* Variant: Absent is returned but not recorded.
AuthoritativeNegative_NoMark(cache, index, address, trace) ==
    Ret(cache, index, NilAccount, NoErr, trace)

\* lines 81-84
AuthoritativeNegative(cache, index, address, trace) ==
    Ret(SetAccountAbsent(cache, address), index, NilAccount, NoErr,
        trace \o <<Ev("setAbsent", Sha(address))>>)

\* lines 85-90: the account Walk's start key and fixed bits for prefix ihK
ScanStartKey(ihK) ==
    CompressNibbles(IF Len(ihK) % 2 = 1 THEN ihK \o <<0>> ELSE ihK)

\* Variant: only the whole bytes of the prefix are fixed.
ScanFixedBits_WholeBytes(ihK) == (Len(ihK) \div 2) * 8

\* Variant: the nibble count is taken for a byte count.
ScanFixedBits_Bytes(ihK) == Len(ihK) * 8

ScanFixedBits(ihK) == Len(ihK) * 4

\* Variant: the callback decodes and writes every entry, cached or not.
VisitAccount_Overwrite(st, k, v, hashed) ==
    LET dec == DecodeForStorage(v)
    IN  IF dec.err # NoErr
        THEN [st EXCEPT !.err = dec.err]
        ELSE [st EXCEPT !.cache = DeprecatedSetAccountRead(st.cache, k, dec.acc),
                        !.found = st.found \/ k = hashed,
                        !.a = IF k = hashed THEN dec.acc ELSE st.a,
                        !.trace = st.trace \o <<Ev("setRead", k)>>]

\* lines 93-111: the account Walk's callback on one entry <<k, v>>
VisitAccount(st, k, v, hashed) ==
    LET got == GetAccountByHashedAddress(st.cache, k)
        dec == DecodeForStorage(v)
    IN  IF got.ok
        THEN [st EXCEPT !.found = st.found \/ k = hashed,
                        !.a = IF k = hashed THEN got.acc ELSE st.a]
        ELSE IF dec.err # NoErr
        THEN [st EXCEPT !.err = dec.err]
        ELSE [st EXCEPT !.cache = DeprecatedSetAccountRead(st.cache, k, dec.acc),
                        !.found = st.found \/ k = hashed,
                        !.a = IF k = hashed THEN dec.acc ELSE st.a,
                        !.trace = st.trace \o <<Ev("setRead", k)>>]

\* Variant: the Walk is cut short once the target has been found.
RECURSIVE WalkAccounts_StopAtTarget(_, _, _, _, _)
WalkAccounts_StopAtTarget(st, entries, i, fault, hashed) ==
    IF fault = i THEN [st EXCEPT !.err = StoreError]
    ELSE IF i > Len(entries) \/ st.found THEN st
    ELSE LET nx == VisitAccount(st, entries[i][1], entries[i][2], hashed)
         IN  IF nx.err # NoErr THEN nx
             ELSE WalkAccounts_StopAtTarget(nx, entries, i + 1, fault, hashed)

\* line 93: Walk drives the callback over the entries until an error
RECURSIVE WalkAccounts(_, _, _, _, _)
WalkAccounts(st, entries, i, fault, hashed) ==
    IF fault = i THEN [st EXCEPT !.err = StoreError]
    ELSE IF i > Len(entries) THEN st
    ELSE LET nx == VisitAccount(st, entries[i][1], entries[i][2], hashed)
         IN  IF nx.err # NoErr THEN nx
             ELSE WalkAccounts(nx, entries, i + 1, fault, hashed)

\* Variant: the subtree is never marked loaded.
FinishScan_NoMarkLoaded(st, index, address, ihK) ==
    LET cache == IF ~st.found THEN SetAccountAbsent(st.cache, address) ELSE st.cache
    IN  Ret(cache, index, st.a, NoErr,
            st.trace \o (IF ~st.found THEN <<Ev("setAbsent", Sha(address))>> ELSE << >>))

\* Variant: the Walk's start key is marked loaded in place of the prefix.
FinishScan_MarkStartKey(st, index, address, ihK) ==
    LET cache == IF ~st.found THEN SetAccountAbsent(st.cache, address) ELSE st.cache
        t     == st.trace
                 \o (IF ~st.found THEN <<Ev("setAbsent", Sha(address))>> ELSE << >>)
                 \o <<Ev("markLoaded", ScanStartKey(ihK))>>
    IN  Ret(cache, IF ScanStartKey(ihK) \in DOMAIN index
                   THEN MarkAccountTrieAsLoaded(index, ScanStartKey(ihK)) ELSE index,
            st.a, NoErr, t)

\* lines 115-119: after a Walk that returned no error
FinishScan(st, index, address, ihK) ==
    LET cache == IF ~st.found THEN SetAccountAbsent(st.cache, address) ELSE st.cache
        t     == st.trace
                 \o (IF ~st.found THEN <<Ev("setAbsent", Sha(address))>> ELSE << >>)
                 \o <<Ev("markLoaded", ihK)>>
    IN  Ret(cache, MarkAccountTrieAsLoaded(index, ihK), st.a, NoErr, t)

\* Variant: the subtree is marked loaded before the Walk's error is looked at.
SubtreeScan_MarkBeforeErrorCheck(cache, index, address, ihK, trace, fault) ==
    LET st0 == [cache |-> cache, found |-> FALSE, a |-> NilAccount, err |-> NoErr,
                trace |-> trace \o <<Ev("walkAccounts", ihK)>>]
        st  == WalkAccounts(st0, WalkEntries(dbHashed, ScanStartKey(ihK), ScanFixedBits(ihK)),
                            1, fault, Sha(address))
    IN  IF st.err # NoErr
        THEN Ret(st.cache, MarkAccountTrieAsLoaded(index, ihK), NilAccount, st.err, st.trace)
        ELSE FinishScan(st, index, address, ihK)

\* lines 85-119: warm the whole subtree under ihK from one Walk
SubtreeScan(cache, index, address, ihK, trace, fault) ==
    LET hashed  == Sha(address)
        buf     == ScanStartKey(ihK)
        entries == WalkEntries(dbHashed, buf, ScanFixedBits(ihK))
        st0     == [cache |-> cache, found |-> FALSE, a |-> NilAccount, err |-> NoErr,
                    trace |-> trace \o <<Ev("walkAccounts", ihK)>>]
        st      == WalkAccounts(st0, entries, 1, fault, hashed)
    IN  IF st.err # NoErr THEN Ret(st.cache, index, NilAccount, st.err, st.trace)
        ELSE FinishScan(st, index, address, ihK)

\* Variant: the hash's bytes are handed to the index as if they were nibbles.
HashedNibbles_Bytes(address) == Sha(address)

\* lines 48-55: the nibble path of the address's hash
HashedNibbles(address) == DecompressNibbles(Sha(address))

\* lines 29-120
ReadAccountDataCall(cache, index, address, fault) ==
    LET hit == DirectHit(cache, address)
        hashedNibbles == HashedNibbles(address)
        f1   == FindDeepestAccountTrie(index, hashedNibbles)
        warm == IF f1.trieMiss THEN WarmTrieIndex(index, f1.ihK, fault)
                ELSE [index |-> index, err |-> NoErr, rest |-> fault, trace |-> << >>]
        f2   == IF f1.trieMiss THEN FindDeepestAccountTrie(warm.index, hashedNibbles) ELSE f1
        t1   == <<Ev("cacheMiss", NilKey), FindEv(f1)>> \o warm.trace
        t2   == IF f1.trieMiss THEN t1 \o <<FindEv(f2)>> ELSE t1
    IN  IF hit.ok THEN Ret(cache, index, hit.acc, NoErr, <<Ev("cacheHit", NilKey)>>)
        ELSE IF warm.err # NoErr THEN Ret(cache, warm.index, NilAccount, warm.err, t1)
        ELSE IF f2.ihK = NilKey
        THEN PointLookupFallback(cache, warm.index, address, t2, warm.rest)
        ELSE IF IsAuthoritativeNegative(f2)
        THEN AuthoritativeNegative(cache, warm.index, address, t2)
        ELSE IF ~IsPlainStateReader(reader)
        THEN Ret(cache, warm.index, NilAccount, Panic, t2)
        ELSE SubtreeScan(cache, warm.index, address, f2.ihK, t2, warm.rest)

Call(op, addr, inc, key, res, err, trace) ==
    [op |-> op, addr |-> addr, inc |-> inc, key |-> key, res |-> res, err |-> err,
     trace |-> trace]

NoCall == Call("none", 0, 0, << >>, << >>, NoErr, << >>)

ReadAccountData(address, fault) ==
    LET r == ReadAccountDataCall(accountCache, trieIndex, address, fault)
    IN  /\ accountCache' = r.cache
        /\ trieIndex' = r.index
        /\ lastCall' = Call("ReadAccountData", address, 0, << >>, r.acc, r.err, r.trace)
        /\ everAbsent' = IF r.err = NoErr /\ r.acc = NilAccount
                         THEN everAbsent \cup {address} ELSE everAbsent
        /\ UNCHANGED <<dbAccounts, dbHashed, dbTrie, storageVars, codeVars, incarnationVars,
                       reader>>

\* The execution engine records in the State Cache that an account is gone.
CallSetAccountAbsent(address) ==
    /\ accountCache' = SetAccountAbsent(accountCache, address)
    /\ lastCall' = Call("SetAccountAbsent", address, 0, << >>, NilAccount, NoErr, << >>)
    /\ UNCHANGED <<dbAccounts, dbHashed, dbTrie, trieIndex, everAbsent, storageVars, codeVars,
                   incarnationVars, reader>>

\* ----------------------------------------- CachedReader.ReadAccountStorage
Incarnations == 1..NumIncarnations
StorageAddresses == {1}
StorageKeys == {<<171>>}
StorageSlots ==
    {<<a, i, k>> : a \in StorageAddresses, i \in Incarnations, k \in StorageKeys}
WrittenValues == {<<7>>}

UnknownValue == [state |-> "unknown", v |-> NoValue]
AbsentValue == [state |-> "absent", v |-> NoValue]
PresentValue(v) == [state |-> "present", v |-> v]

GetStorage(cache, address, incarnation, key) ==
    [ok |-> cache[<<address, incarnation, key>>].state # "unknown",
     v  |-> cache[<<address, incarnation, key>>].v]

SetStorageAbsent(cache, address, incarnation, key) ==
    [cache EXCEPT ![<<address, incarnation, key>>] = AbsentValue]

SetStorageRead(cache, address, incarnation, key, v) ==
    [cache EXCEPT ![<<address, incarnation, key>>] = PresentValue(v)]

\* The underlying reader's ReadAccountStorage: one point lookup.
StoreReadAccountStorage(address, incarnation, key, fails) ==
    IF fails THEN [v |-> NoValue, err |-> StoreError]
    ELSE [v |-> dbStorage[<<address, incarnation, key>>], err |-> NoErr]

\* Variant: the lookup matches the slot of any incarnation of the address.
StorageHit_AnyIncarnation(cache, address, incarnation, key) ==
    LET known == {i \in Incarnations : GetStorage(cache, address, i, key).ok}
    IN  IF known = {} THEN [ok |-> FALSE, v |-> NoValue]
        ELSE GetStorage(cache, address, CHOOSE i \in known : TRUE, key)

\* lines 124-127: the cache lookup on the (address, incarnation, key) tuple
StorageHit(cache, address, incarnation, key) == GetStorage(cache, address, incarnation, key)

\* Variant: no fetched value counts as absent.
IsZeroLength_Never(v) == FALSE

\* line 132: absence is a value of zero length
IsZeroLength(v) == Len(v) = 0

\* lines 123-138
ReadAccountStorageCall(cache, address, incarnation, key, fault) ==
    LET hit == StorageHit(cache, address, incarnation, key)
        r   == StoreReadAccountStorage(address, incarnation, key, fault = 1)
        t   == <<Ev("cacheMiss", key), Ev("get", key)>>
    IN  IF hit.ok THEN [cache |-> cache, v |-> hit.v, err |-> NoErr,
                        trace |-> <<Ev("cacheHit", key)>>]
        ELSE IF r.err # NoErr THEN [cache |-> cache, v |-> NoValue, err |-> r.err, trace |-> t]
        ELSE IF IsZeroLength(r.v)
        THEN [cache |-> SetStorageAbsent(cache, address, incarnation, key), v |-> r.v,
              err |-> NoErr, trace |-> t \o <<Ev("setAbsent", key)>>]
        ELSE [cache |-> SetStorageRead(cache, address, incarnation, key, r.v), v |-> r.v,
              err |-> NoErr, trace |-> t \o <<Ev("setRead", key)>>]

ReadAccountStorage(address, incarnation, key, fault) ==
    LET r == ReadAccountStorageCall(storageCache, address, incarnation, key, fault)
    IN  /\ storageCache' = r.cache
        /\ lastCall' = Call("ReadAccountStorage", address, incarnation, key, r.v, r.err, r.trace)
        /\ UNCHANGED <<dbStorage, accountVars, codeVars, incarnationVars, reader>>

\* The execution engine records a storage write in the State Cache.
CallSetStorageRead(address, incarnation, key, v) ==
    /\ storageCache' = SetStorageRead(storageCache, address, incarnation, key, v)
    /\ lastCall' = Call("SetStorageRead", address, incarnation, key, v, NoErr, << >>)
    /\ UNCHANGED <<dbStorage, accountVars, codeVars, incarnationVars, reader>>

CallSetStorageAbsent(address, incarnation, key) ==
    /\ storageCache' = SetStorageAbsent(storageCache, address, incarnation, key)
    /\ lastCall' = Call("SetStorageAbsent", address, incarnation, key, NoValue, NoErr, << >>)
    /\ UNCHANGED <<dbStorage, accountVars, codeVars, incarnationVars, reader>>

\* -------------------------------------------- CachedReader.ReadAccountCode
\* A code blob is <<length, content tag>>; the empty blob is << >>.
NoCode == << >>
CodeLen(c) == IF c = NoCode THEN 0 ELSE c[1]

CodeAddresses == {1}
CodeSlots == {<<a, i>> : a \in CodeAddresses, i \in Incarnations}
CodeBlobs(i) == {NoCode, <<1, i>>, <<CodeSizeLimit, i>>, <<CodeSizeLimit + 1, i>>}

\* emptyCodeHash: the hash of the empty byte string; OtherCodeHash: any other.
EmptyCodeHash == <<197, 210>>
OtherCodeHash == <<86, 232>>
CodeHashes == {EmptyCodeHash, OtherCodeHash}

UnknownCode == [state |-> "unknown", c |-> NoCode]
PresentCode(c) == [state |-> "present", c |-> c]

GetCode(cache, address, incarnation) ==
    [ok |-> cache[<<address, incarnation>>].state # "unknown",
     c  |-> cache[<<address, incarnation>>].c]

\* SetCodeRead: a no-op for a blob above the size threshold.
SetCodeRead(cache, address, incarnation, c) ==
    IF CodeLen(c) > CodeSizeLimit THEN cache
    ELSE [cache EXCEPT ![<<address, incarnation>>] = PresentCode(c)]

\* The underlying reader's ReadAccountCode: one point lookup.
StoreReadAccountCode(address, incarnation, codeHash, fails) ==
    IF fails THEN [c |-> NoCode, err |-> StoreError]
    ELSE [c |-> dbCode[<<address, incarnation>>], err |-> NoErr]

\* Variant: the cutoff excludes a blob of exactly the limit.
ShouldCacheCode_Strict(c) == CodeLen(c) < CodeSizeLimit

\* line 153: whether the fetched blob is handed to SetCodeRead
ShouldCacheCode(c) == CodeLen(c) <= CodeSizeLimit

\* Variant: the hash is compared with the all-zero hash.
IsEmptyCodeHash_ZeroHash(codeHash) == codeHash = <<0, 0>>

\* line 143: the hash is that of the empty byte string
IsEmptyCodeHash(codeHash) == codeHash = EmptyCodeHash

\* lines 142-157
ReadAccountCodeCall(cache, address, incarnation, codeHash, fault) ==
    LET hit == GetCode(cache, address, incarnation)
        r   == StoreReadAccountCode(address, incarnation, codeHash, fault = 1)
        t   == <<Ev("getCode", codeHash), Ev("cacheMiss", codeHash), Ev("get", codeHash)>>
    IN  IF IsEmptyCodeHash(codeHash)
        THEN [cache |-> cache, c |-> NoCode, err |-> NoErr, trace |-> << >>]
        ELSE IF hit.ok
        THEN [cache |-> cache, c |-> hit.c, err |-> NoErr,
              trace |-> <<Ev("getCode", codeHash), Ev("cacheHit", codeHash)>>]
        ELSE IF r.err # NoErr
        THEN [cache |-> cache, c |-> NoCode, err |-> r.err, trace |-> t]
        ELSE IF ShouldCacheCode(r.c)
        THEN [cache |-> SetCodeRead(cache, address, incarnation, r.c), c |-> r.c,
              err |-> NoErr, trace |-> t \o <<Ev("setCode", codeHash)>>]
        ELSE [cache |-> cache, c |-> r.c, err |-> NoErr, trace |-> t]

ReadAccountCode(address, incarnation, codeHash, fault) ==
    LET r == ReadAccountCodeCall(codeCache, address, incarnation, codeHash, fault)
    IN  /\ codeCache' = r.cache
        /\ lastCall' = Call("ReadAccountCode", address, incarnation, codeHash, r.c, r.err,
                            r.trace)
        /\ UNCHANGED <<dbCode, accountVars, storageVars, incarnationVars, reader>>

\* lines 159-162: the size is the length of what ReadAccountCode returns
ReadAccountCodeSize(address, incarnation, codeHash, fault) ==
    LET r == ReadAccountCodeCall(codeCache, address, incarnation, codeHash, fault)
    IN  /\ codeCache' = r.cache
        /\ lastCall' = Call("ReadAccountCodeSize", address, incarnation, codeHash,
                            <<CodeLen(r.c)>>, r.err, r.trace)
        /\ UNCHANGED <<dbCode, accountVars, storageVars, incarnationVars, reader>>

\* ------------------------------------- CachedReader.ReadAccountIncarnation
NoMarker == [deleted |-> FALSE, incarnation |-> 0]
Marker(incarnation) == [deleted |-> TRUE, incarnation |-> incarnation]

\* GetDeletedAccount: the marker of the address, if one exists.
GetDeletedAccount(markers, address) == markers[address]

\* The underlying reader's ReadAccountIncarnation.
StoreReadAccountIncarnation(address, fails) ==
    IF fails THEN [n |-> 0, err |-> StoreError]
    ELSE [n |-> dbIncarnation[address], err |-> NoErr]

\* Variant: the marker is ignored and the store is always asked.
ReadAccountIncarnationCall_NoMarker(markers, address, fault) ==
    LET r == StoreReadAccountIncarnation(address, fault = 1)
    IN  [n |-> r.n, err |-> r.err, trace |-> <<Ev("getDeleted", NilKey), Ev("get", NilKey)>>]

\* lines 165-171
ReadAccountIncarnationCall(markers, address, fault) ==
    LET deleted == GetDeletedAccount(markers, address)
        r       == StoreReadAccountIncarnation(address, fault = 1)
    IN  IF deleted.deleted
        THEN [n |-> deleted.incarnation, err |-> NoErr, trace |-> <<Ev("getDeleted", NilKey)>>]
        ELSE [n |-> r.n, err |-> r.err,
              trace |-> <<Ev("getDeleted", NilKey), Ev("get", NilKey)>>]

ReadAccountIncarnation(address, fault) ==
    LET r == ReadAccountIncarnationCall(deletedAccounts, address, fault)
    IN  /\ lastCall' = Call("ReadAccountIncarnation", address, 0, << >>, <<r.n>>, r.err, r.trace)
        /\ UNCHANGED <<accountVars, storageVars, codeVars, incarnationVars, reader>>

\* The execution engine deletes an account whose last incarnation was the given one.
CallSetAccountDelete(address, incarnation) ==
    /\ deletedAccounts' = [deletedAccounts EXCEPT ![address] = Marker(incarnation)]
    /\ lastCall' = Call("SetAccountDelete", address, incarnation, << >>, << >>, NoErr, << >>)
    /\ UNCHANGED <<dbIncarnation, accountVars, storageVars, codeVars, reader>>

\* ------------------------------------------------------- specifications
EmptyAccountStore ==
    /\ dbAccounts = [a \in Addresses |-> NoValue]
    /\ dbHashed = << >>
    /\ dbTrie = << >>

EmptyStorage ==
    /\ dbStorage = [s \in StorageSlots |-> NoValue]
    /\ storageCache = [s \in StorageSlots |-> UnknownValue]

EmptyCode ==
    /\ dbCode = [s \in CodeSlots |-> NoCode]
    /\ codeCache = [s \in CodeSlots |-> UnknownCode]

EmptyIncarnations ==
    /\ dbIncarnation = [a \in Addresses |-> 0]
    /\ deletedAccounts = [a \in Addresses |-> NoMarker]

StoredValues(a) == {NoValue, EncodeAccount(a), BadRecord}

ColdAccounts ==
    /\ accountCache = [h \in HashedKeys |-> Unknown]
    /\ trieIndex = [k \in TrieKeys |-> NoDescriptor]
    /\ everAbsent = {}

InitAccounts ==
    /\ dbAccounts \in {f \in [Addresses -> UNION {StoredValues(a) : a \in Addresses}] :
                          \A a \in Addresses : f[a] \in StoredValues(a)}
    /\ dbHashed = SortEntries({<<Sha(a), dbAccounts[a]>> :
                                  a \in {x \in Addresses : dbAccounts[x] # NoValue}})
    /\ \E nodes \in [TrieKeys -> {NoValue} \cup TrieNodeValues] :
          dbTrie = SortEntries({<<k, nodes[k]>> : k \in {x \in TrieKeys : nodes[x] # NoValue}})
    /\ ColdAccounts
    /\ EmptyStorage /\ EmptyCode /\ EmptyIncarnations
    /\ lastCall = NoCall

\* The reader wrapped is a PlainStateReader.
Init == InitAccounts /\ reader = PlainStateReader

Next ==
    \E address \in Addresses, fault \in FaultPoints : ReadAccountData(address, fault)

Spec == Init /\ [][Next]_vars

\* Reads while the execution engine marks accounts of the view as gone; the
\* store fails, if at all, in one of a call's first two interactions.
WriterFaults == {0, 1, 2}

NextWriters ==
    \/ \E address \in Addresses, fault \in WriterFaults : ReadAccountData(address, fault)
    \/ \E address \in Addresses : CallSetAccountAbsent(address)

SpecWriters == Init /\ [][NextWriters]_vars

\* Reads, none of which the store fails, over every content of a store of all
\* the hashed addresses of ShaTable and all the node keys of TrieKeyTable.
ScanAddresses == 1..Len(ShaTable)
ScanPrefixes == {TrieKeyTable[i] : i \in 1..Len(TrieKeyTable)}

InitScan ==
    /\ dbAccounts \in {f \in [ScanAddresses -> {NoValue} \cup {EncodeAccount(a) : a \in ScanAddresses}] :
                          \A a \in ScanAddresses : f[a] \in {NoValue, EncodeAccount(a)}}
    /\ dbHashed = SortEntries({<<Sha(a), dbAccounts[a]>> :
                                  a \in {x \in ScanAddresses : dbAccounts[x] # NoValue}})
    /\ \E stored \in SUBSET ScanPrefixes : dbTrie = SortEntries({<<k, <<5>>>> : k \in stored})
    /\ accountCache = [h \in {Sha(a) : a \in ScanAddresses} |-> Unknown]
    /\ trieIndex = [k \in ScanPrefixes |-> NoDescriptor]
    /\ everAbsent = {}
    /\ EmptyStorage /\ EmptyCode /\ EmptyIncarnations
    /\ reader = PlainStateReader
    /\ lastCall = NoCall

NextScan == \E address \in ScanAddresses : ReadAccountData(address, 0)

SpecScan == InitScan /\ [][NextScan]_vars

\* NewCachedReader takes any StateReader.
InitReaders == InitAccounts /\ reader \in ReaderTypes

SpecReaders == InitReaders /\ [][Next]_vars

\* Storage reads and writes over every store content of the slots.
InitStorage ==
    /\ EmptyAccountStore /\ ColdAccounts /\ EmptyCode /\ EmptyIncarnations
    /\ reader \in ReaderTypes
    /\ dbStorage \in {f \in [StorageSlots -> {NoValue} \cup {<<i>> : i \in Incarnations}] :
                         \A sl \in StorageSlots : f[sl] \in {NoValue, <<sl[2]>>}}
    /\ storageCache = [sl \in StorageSlots |-> UnknownValue]
    /\ lastCall = NoCall

NextStorage ==
    \/ \E sl \in StorageSlots, fault \in 0..1 : ReadAccountStorage(sl[1], sl[2], sl[3], fault)
    \/ \E sl \in StorageSlots, v \in WrittenValues : CallSetStorageRead(sl[1], sl[2], sl[3], v)
    \/ \E sl \in StorageSlots : CallSetStorageAbsent(sl[1], sl[2], sl[3])

SpecStorage == InitStorage /\ [][NextStorage]_vars

\* Code reads over every store content of the slots.
InitCode ==
    /\ EmptyAccountStore /\ ColdAccounts /\ EmptyStorage /\ EmptyIncarnations
    /\ reader \in ReaderTypes
    /\ dbCode \in {f \in [CodeSlots -> UNION {CodeBlobs(i) : i \in Incarnations}] :
                      \A sl \in CodeSlots : f[sl] \in CodeBlobs(sl[2])}
    /\ codeCache = [sl \in CodeSlots |-> UnknownCode]
    /\ lastCall = NoCall

NextCode ==
    \/ \E sl \in CodeSlots, h \in CodeHashes, fault \in 0..1 :
          ReadAccountCode(sl[1], sl[2], h, fault)
    \/ \E sl \in CodeSlots, h \in CodeHashes, fault \in 0..1 :
          ReadAccountCodeSize(sl[1], sl[2], h, fault)

SpecCode == InitCode /\ [][NextCode]_vars

\* Incarnation reads with accounts being deleted in between.
InitIncarnation ==
    /\ EmptyAccountStore /\ ColdAccounts /\ EmptyStorage /\ EmptyCode
    /\ reader \in ReaderTypes
    /\ dbIncarnation \in [Addresses -> 0..NumIncarnations]
    /\ deletedAccounts = [a \in Addresses |-> NoMarker]
    /\ lastCall = NoCall

NextIncarnation ==
    \/ \E a \in Addresses, fault \in 0..1 : ReadAccountIncarnation(a, fault)
    \/ \E a \in Addresses, i \in Incarnations : CallSetAccountDelete(a, i)

SpecIncarnation == InitIncarnation /\ [][NextIncarnation]_vars

\* ================================================================ claims
IsRead(call) == call.op = "ReadAccountData"

AccountScans(call) == CountEvents(call.trace, {"walkAccounts"})

\* The key of the account Walk a call made, NilKey if it made none.
RECURSIVE ScannedPrefix(_)
ScannedPrefix(trace) ==
    IF trace = << >> THEN NilKey
    ELSE IF Head(trace).e = "walkAccounts" THEN Head(trace).k
    ELSE ScannedPrefix(Tail(trace))

\* What one point lookup of the address in the unchanged store yields.
PointLookup(address) == StoreReadAccountData(address, FALSE)

\* The deepest key of the store's trie-node bucket above the address.
StorePrefix(address) ==
    LET path  == DecompressNibbles(Sha(address))
        cands == {dbTrie[i][1] : i \in {j \in 1..Len(dbTrie) : IsPrefix(dbTrie[j][1], path)}}
    IN  IF cands = {} THEN NilKey
        ELSE CHOOSE x \in cands : \A y \in cands : Len(y) <= Len(x)

\* Every node of the store without state has no account below it.
StoreConsistent ==
    \A i \in 1..Len(dbTrie) :
        ~UnmarshalTrieNodeTyped(dbTrie[i][2]).hasState =>
            \A j \in 1..Len(dbHashed) :
                ~IsPrefix(dbTrie[i][1], DecompressNibbles(dbHashed[j][1]))

\* C1: once ReadAccountData has returned Absent for an address, every later
\* call for that address returns Absent without error and without any
\* Backing Store access, whatever reads happened in between.
C1_AbsenceStable ==
    [][lastCall'.addr \in everAbsent =>
          /\ lastCall'.res = NilAccount
          /\ lastCall'.err = NoErr
          /\ StoreOps(lastCall') = 0]_vars

C1_Witness ==
    /\ IsRead(lastCall)
    /\ lastCall.addr \in everAbsent
    /\ lastCall.trace = <<Ev("cacheHit", NilKey)>>
    /\ lastCall.res = NilAccount

\* C2 as stated: over a consistent, unchanging store every call yields exactly
\* what a point lookup of the address yields (leaving aside calls in which the
\* store itself failed to read).
C2_Original ==
    (StoreConsistent /\ IsRead(lastCall) /\ lastCall.err # StoreError) =>
        /\ lastCall.res = PointLookup(lastCall.addr).acc
        /\ lastCall.err = PointLookup(lastCall.addr).err

\* C2 (amended): over a consistent, unchanging store every call that returns
\* without error returns exactly what a point lookup of the address returns:
\* the stored account when one exists, Absent only when none exists.
C2_ResultMatchesStore ==
    (StoreConsistent /\ IsRead(lastCall) /\ lastCall.err = NoErr) =>
        /\ PointLookup(lastCall.addr).err = NoErr
        /\ lastCall.res = PointLookup(lastCall.addr).acc
        /\ (lastCall.res = NilAccount <=> dbAccounts[lastCall.addr] = NoValue)

C2_Witness ==
    /\ StoreConsistent
    /\ IsRead(lastCall) /\ lastCall.err = NoErr
    /\ AccountScans(lastCall) = 1
    /\ lastCall.res = <<lastCall.addr>>
    /\ Len(dbTrie) = 2

KeyF0 == TrieKeyTable[1]

ScenarioStore ==
    /\ Len(dbTrie) = 1
    /\ dbTrie[1][1] = KeyF0
    /\ UnmarshalTrieNodeTyped(dbTrie[1][2]).hasState
    /\ dbAccounts[1] = EncodeAccount(1)
    /\ \A a \in Addresses \ {1} : dbAccounts[a] = NoValue

ColdCache ==
    /\ \A k \in TrieKeys : ~trieIndex[k].present
    /\ \A h \in HashedKeys : accountCache[h] = Unknown

ColdReadTrace ==
    << Ev("cacheMiss", NilKey),
       [e |-> "find", k |-> NilKey, hasState |-> FALSE, loaded |-> FALSE, trieMiss |-> TRUE],
       Ev("walkTrie", NilKey),
       Ev("insert", KeyF0),
       [e |-> "find", k |-> KeyF0, hasState |-> TRUE, loaded |-> FALSE, trieMiss |-> FALSE],
       Ev("walkAccounts", KeyF0),
       Ev("setRead", Sha(1)),
       Ev("markLoaded", KeyF0) >>

ColdReadDone ==
    /\ lastCall = Call("ReadAccountData", 1, 0, << >>, <<1>>, NoErr, ColdReadTrace)
    /\ trieIndex[KeyF0].present /\ trieIndex[KeyF0].loaded
    /\ accountCache[Sha(1)] = PresentEntry(<<1>>)
    /\ accountCache[Sha(2)] = Unknown

\* C4: in the scenario, a read of the stored account on a cold cache that the
\* store does not fail goes, in this order, through: direct miss, find with
\* trieMiss, one trie-node Walk inserting f0, find matching f0 (hasState, not
\* loaded), one account Walk under f0 that finds the target, MarkLoaded(f0),
\* and returns the decoded account; a following read of another address under
\* f0 that the store does not hold returns Absent with no store access.
C4_ColdCacheScenario ==
    [][ScenarioStore =>
          /\ (ColdCache /\ lastCall'.addr = 1 /\ lastCall'.err = NoErr) =>
                /\ lastCall'.trace = ColdReadTrace
                /\ lastCall'.res = <<1>>
                /\ trieIndex'[KeyF0].loaded
          /\ (ColdReadDone /\ lastCall'.addr = 2) =>
                /\ lastCall'.res = NilAccount
                /\ lastCall'.err = NoErr
                /\ StoreOps(lastCall') = 0]_vars

C4_Witness ==
    /\ ScenarioStore
    /\ lastCall.addr = 2 /\ lastCall.res = NilAccount /\ lastCall.err = NoErr
    /\ lastCall.trace =
          << Ev("cacheMiss", NilKey),
             [e |-> "find", k |-> KeyF0, hasState |-> TRUE, loaded |-> TRUE,
              trieMiss |-> FALSE],
             Ev("setAbsent", Sha(2)) >>
    /\ accountCache[Sha(1)] = PresentEntry(<<1>>)

FailedInScan(call) ==
    IsRead(call) /\ call.err # NoErr /\ AccountScans(call) = 1

\* C5: when the account Walk of a call fails part-way, the call returns the
\* error, the matched descriptor keeps loaded = FALSE, the target address is
\* not marked Absent, and the next call that misses the cache under that same
\* prefix walks the subtree again.
C5_NoFalseCompleteness ==
    [][/\ FailedInScan(lastCall') =>
            /\ lastCall'.err \in {StoreError, DecodeError}
            /\ lastCall'.res = NilAccount
            /\ trieIndex'[ScannedPrefix(lastCall'.trace)].present
            /\ ~trieIndex'[ScannedPrefix(lastCall'.trace)].loaded
            /\ accountCache'[Sha(lastCall'.addr)].state # "absent"
       /\ (/\ FailedInScan(lastCall)
           /\ ~GetAccount(accountCache, lastCall'.addr).ok
           /\ FindDeepestAccountTrie(trieIndex, DecompressNibbles(Sha(lastCall'.addr))).ihK
                 = ScannedPrefix(lastCall.trace))
            => /\ AccountScans(lastCall') = 1
               /\ ScannedPrefix(lastCall'.trace) = ScannedPrefix(lastCall.trace)]_vars

\* A Walk that failed after it had already cached an entry.
C5_Witness ==
    /\ FailedInScan(lastCall)
    /\ \E i \in 1..Len(lastCall.trace) : lastCall.trace[i].e = "setRead"
    /\ ~trieIndex[ScannedPrefix(lastCall.trace)].loaded
    /\ accountCache[Sha(lastCall.addr)].state = "unknown"

\* C7: after a successful ReadAccountData(address) the Account Cache holds a
\* tri-state entry for that address that agrees with the result, and the same
\* call repeated at once returns the same result with no store access and
\* changes neither the Account Cache nor the Trie Prefix Index.
C7_RepeatFromMemory ==
    [][/\ lastCall'.err = NoErr =>
            accountCache'[Sha(lastCall'.addr)] =
                (IF lastCall'.res = NilAccount THEN AbsentEntry
                 ELSE PresentEntry(lastCall'.res))
       /\ (IsRead(lastCall) /\ lastCall.err = NoErr /\ lastCall'.addr = lastCall.addr) =>
            /\ lastCall'.res = lastCall.res
            /\ lastCall'.err = NoErr
            /\ StoreOps(lastCall') = 0
            /\ UNCHANGED <<accountCache, trieIndex>>]_vars

\* A repeat answered from memory after the point-lookup fallback cached it.
C7_Witness ==
    /\ IsRead(lastCall)
    /\ lastCall.trace = <<Ev("cacheHit", NilKey)>>
    /\ lastCall.res # NilAccount
    /\ Len(dbTrie) = 0

\* The slot a storage call names.
SlotOf(call) == <<call.addr, call.inc, call.key>>

\* C6: a read of (address, incarnation j, key) is answered from its own slot
\* only: when that slot is not cached the read misses, queries the store once
\* and returns the store's value for incarnation j, whatever is cached for the
\* same address and key under another incarnation; when it is cached the read
\* returns that slot's own value.
C6_IncarnationIsolation ==
    [][lastCall'.op = "ReadAccountStorage" =>
          /\ storageCache[SlotOf(lastCall')].state = "unknown" =>
                /\ StoreOps(lastCall') = 1
                /\ lastCall'.err = NoErr => lastCall'.res = dbStorage[SlotOf(lastCall')]
                /\ lastCall'.err # NoErr => lastCall'.res = NoValue
          /\ storageCache[SlotOf(lastCall')].state # "unknown" =>
                /\ StoreOps(lastCall') = 0
                /\ lastCall'.res = storageCache[SlotOf(lastCall')].v]_vars

\* A read that went to the store while another incarnation of the same
\* address and key held a different cached value.
C6_Witness ==
    /\ lastCall.op = "ReadAccountStorage"
    /\ lastCall.err = NoErr
    /\ StoreOps(lastCall) = 1
    /\ \E i \in Incarnations \ {lastCall.inc} :
          /\ storageCache[<<lastCall.addr, i, lastCall.key>>].state = "present"
          /\ storageCache[<<lastCall.addr, i, lastCall.key>>].v # lastCall.res

CodeSlotOf(call) == <<call.addr, call.inc>>

\* C8: a blob that ReadAccountCode fetched is cached under (address,
\* incarnation) when its length is at most 1024 (1024 included), so that the
\* next read is a hit with no store access; a longer blob is never cached and
\* every read of it queries the store; the Code Cache never holds a blob longer
\* than 1024 bytes.
C8_CodeSizeCutoff ==
    [][/\ \A sl \in CodeSlots : CodeLen(codeCache'[sl].c) <= CodeSizeLimit
       /\ (lastCall'.op = "ReadAccountCode" /\ lastCall'.key # EmptyCodeHash) =>
            /\ (codeCache[CodeSlotOf(lastCall')].state = "unknown" /\ lastCall'.err = NoErr) =>
                  /\ StoreOps(lastCall') = 1
                  /\ lastCall'.res = dbCode[CodeSlotOf(lastCall')]
                  /\ codeCache'[CodeSlotOf(lastCall')] =
                        (IF CodeLen(lastCall'.res) <= CodeSizeLimit
                         THEN PresentCode(lastCall'.res) ELSE UnknownCode)
            /\ codeCache[CodeSlotOf(lastCall')].state = "present" =>
                  /\ StoreOps(lastCall') = 0
                  /\ lastCall'.err = NoErr
                  /\ lastCall'.res = codeCache[CodeSlotOf(lastCall')].c
            /\ CodeLen(dbCode[CodeSlotOf(lastCall')]) > CodeSizeLimit =>
                  StoreOps(lastCall') = 1]_vars

\* A hit on a cached blob of exactly 1024 bytes, next to a slot whose blob of
\* 1025 bytes is not cached.
C8_Witness ==
    /\ lastCall.op = "ReadAccountCode"
    /\ StoreOps(lastCall) = 0
    /\ CodeLen(lastCall.res) = CodeSizeLimit
    /\ codeCache[CodeSlotOf(lastCall)] = PresentCode(lastCall.res)
    /\ \E sl \in CodeSlots :
          CodeLen(dbCode[sl]) = CodeSizeLimit + 1 /\ codeCache[sl] = UnknownCode

\* C9: with the hash of the empty byte string ReadAccountCode returns the empty
\* result without error, without looking at the Code Cache, without store
\* access and without changing any cache.
C9_EmptyCodeShortCircuit ==
    [][(lastCall'.op = "ReadAccountCode" /\ lastCall'.key = EmptyCodeHash) =>
          /\ lastCall'.res = NoCode
          /\ lastCall'.err = NoErr
          /\ lastCall'.trace = << >>
          /\ UNCHANGED <<accountVars, storageVars, codeVars, incarnationVars, reader>>]_vars

\* The short-circuit taken while cache and store both hold code for the slot.
C9_Witness ==
    /\ lastCall.op = "ReadAccountCode"
    /\ lastCall.key = EmptyCodeHash
    /\ lastCall.res = NoCode
    /\ codeCache[CodeSlotOf(lastCall)].state = "present"
    /\ codeCache[CodeSlotOf(lastCall)].c # NoCode
    /\ dbCode[CodeSlotOf(lastCall)] # NoCode

\* C10: ReadAccountIncarnation returns the marker's incarnation with no store
\* access when a Deleted-Account Marker exists for the address, returns what
\* the underlying reader returns otherwise, and changes no cache either way.
C10_IncarnationFastPath ==
    [][lastCall'.op = "ReadAccountIncarnation" =>
          /\ deletedAccounts[lastCall'.addr].deleted =>
                /\ lastCall'.res = <<deletedAccounts[lastCall'.addr].incarnation>>
                /\ lastCall'.err = NoErr
                /\ StoreOps(lastCall') = 0
          /\ ~deletedAccounts[lastCall'.addr].deleted =>
                /\ StoreOps(lastCall') = 1
                /\ lastCall'.err \in {NoErr, StoreError}
                /\ lastCall'.err = NoErr => lastCall'.res = <<dbIncarnation[lastCall'.addr]>>
                /\ lastCall'.err = StoreError => lastCall'.res = <<0>>
          /\ UNCHANGED <<accountVars, storageVars, codeVars, incarnationVars, reader>>]_vars

\* The marker answered with an incarnation the store would not have given.
C10_Witness ==
    /\ lastCall.op = "ReadAccountIncarnation"
    /\ StoreOps(lastCall) = 0
    /\ deletedAccounts[lastCall.addr].deleted
    /\ lastCall.res = <<deletedAccounts[lastCall.addr].incarnation>>
    /\ lastCall.res # <<dbIncarnation[lastCall.addr]>>

\* C11: a ReadAccountStorage call whose (address, incarnation, key) slot is
\* cached returns the cached value (empty for Absent) with no store access and
\* changes nothing; a call whose slot is not cached makes exactly one point
\* lookup and, without error, caches the slot as Absent exactly when the value
\* has zero length and as Present with that value otherwise, touching no other
\* slot, so the next read of the slot makes no store access; on a store error
\* the Storage Cache is unchanged.
C11_StorageLookupDiscipline ==
    [][lastCall'.op = "ReadAccountStorage" =>
          /\ storageCache[SlotOf(lastCall')].state # "unknown" =>
                /\ StoreOps(lastCall') = 0
                /\ lastCall'.err = NoErr
                /\ lastCall'.res = storageCache[SlotOf(lastCall')].v
                /\ storageCache' = storageCache
          /\ storageCache[SlotOf(lastCall')].state = "unknown" =>
                /\ StoreOps(lastCall') = 1
                /\ lastCall'.err = NoErr =>
                      /\ lastCall'.res = dbStorage[SlotOf(lastCall')]
                      /\ storageCache' =
                            [storageCache EXCEPT ![SlotOf(lastCall')] =
                                IF Len(lastCall'.res) = 0 THEN AbsentValue
                                ELSE PresentValue(lastCall'.res)]
                /\ lastCall'.err # NoErr =>
                      /\ lastCall'.err = StoreError
                      /\ storageCache' = storageCache
          /\ (/\ lastCall.op = "ReadAccountStorage"
              /\ lastCall.err = NoErr
              /\ SlotOf(lastCall) = SlotOf(lastCall')) =>
                /\ StoreOps(lastCall') = 0
                /\ lastCall'.res = lastCall.res]_vars

\* A miss on a slot the store does not hold cached it Absent, next to a slot
\* of the same address and key that a miss cached Present.
C11_Witness ==
    /\ lastCall.op = "ReadAccountStorage"
    /\ lastCall.err = NoErr
    /\ StoreOps(lastCall) = 1
    /\ lastCall.res = NoValue
    /\ storageCache[SlotOf(lastCall)] = AbsentValue
    /\ \E i \in Incarnations \ {lastCall.inc} :
          /\ dbStorage[<<lastCall.addr, i, lastCall.key>>] # NoValue
          /\ storageCache[<<lastCall.addr, i, lastCall.key>>] =
                PresentValue(dbStorage[<<lastCall.addr, i, lastCall.key>>])

\* The nibble path P of an address and the keys an index stores above it.
PathOf(address) == DecompressNibbles(Sha(address))

StoredPrefixes(index, path) == {k \in TrieKeys : index[k].present /\ IsPrefix(k, path)}

IsFindEvent(e) == e.e = "find"

Finds(call) == SelectSeq(call.trace, IsFindEvent)

\* The find named a stored prefix of the path that no stored prefix exceeds
\* in length, or reported trieMiss with no key when none is stored.
IsDeepestMatch(k, trieMiss, index, path) ==
    /\ trieMiss <=> StoredPrefixes(index, path) = {}
    /\ trieMiss => k = NilKey
    /\ ~trieMiss =>
          /\ k \in StoredPrefixes(index, path)
          /\ \A other \in StoredPrefixes(index, path) : Len(other) <= Len(k)

\* C12: FindDeepestPrefix(P) on any index returns the longest stored prefix of
\* P with that descriptor's hasState and loaded flags and trieMiss = FALSE, and
\* trieMiss = TRUE exactly when no stored key is a prefix of P; ReadAccountData
\* asks it about the nibble path of the address's hash, before and (on
\* trieMiss) after the trie-node Walk, and scans and marks loaded under the
\* deepest match only.
C12_DeepestPrefixMatch ==
    [][/\ \A a \in Addresses :
            LET f == FindDeepestAccountTrie(trieIndex, PathOf(a))
            IN  /\ IsDeepestMatch(f.ihK, f.trieMiss, trieIndex, PathOf(a))
                /\ ~f.trieMiss =>
                      /\ f.hasState = trieIndex[f.ihK].hasState
                      /\ f.alreadyLoaded = trieIndex[f.ihK].loaded
       /\ (IsRead(lastCall') /\ Len(Finds(lastCall')) >= 1) =>
            LET first == Finds(lastCall')[1]
                path  == PathOf(lastCall'.addr)
            IN  /\ IsDeepestMatch(first.k, first.trieMiss, trieIndex, path)
                /\ ~first.trieMiss =>
                      /\ first.hasState = trieIndex[first.k].hasState
                      /\ first.loaded = trieIndex[first.k].loaded
                      /\ Len(Finds(lastCall')) = 1
       /\ (IsRead(lastCall') /\ Len(Finds(lastCall')) = 2) =>
            LET second == Finds(lastCall')[2]
                path   == PathOf(lastCall'.addr)
            IN  /\ IsDeepestMatch(second.k, second.trieMiss, trieIndex', path)
                /\ ~second.trieMiss =>
                      /\ second.hasState = trieIndex'[second.k].hasState
                      /\ ~second.loaded
       /\ (IsRead(lastCall') /\ AccountScans(lastCall') = 1) =>
            LET last == Finds(lastCall')[Len(Finds(lastCall'))]
            IN  /\ ScannedPrefix(lastCall'.trace) = last.k
                /\ \A i \in 1..Len(lastCall'.trace) :
                      lastCall'.trace[i].e = "markLoaded" => lastCall'.trace[i].k = last.k]_vars

\* The index holds f and f0, and a read of an address under f0 matched f0.
C12_Witness ==
    /\ IsRead(lastCall)
    /\ Cardinality(StoredPrefixes(trieIndex, PathOf(lastCall.addr))) = 2
    /\ Len(Finds(lastCall)) = 2
    /\ Finds(lastCall)[2].k = KeyF0
    /\ ScannedPrefix(lastCall.trace) = KeyF0
    /\ trieIndex[KeyF0].loaded
    /\ ~trieIndex[TrieKeyTable[2]].loaded

PublicReads ==
    {"ReadAccountData", "ReadAccountStorage", "ReadAccountCode", "ReadAccountCodeSize",
     "ReadAccountIncarnation"}

\* C13: every public read of the Cached Reader, whatever StateReader it wraps
\* and whatever the State Cache holds, ends either without error or with an
\* error the Backing Store produced (StoreError or DecodeError), never in any
\* other failure.
C13_OnlyStoreErrors ==
    lastCall.op \in PublicReads => lastCall.err \in {NoErr, StoreError, DecodeError}

\* The hashed addresses the store holds whose nibble path has k as a prefix.
StoredUnder(k) ==
    {dbHashed[j][1] : j \in {i \in 1..Len(dbHashed) :
                                IsPrefix(k, DecompressNibbles(dbHashed[i][1]))}}

Materialized(cache, k) == \A h \in StoredUnder(k) : cache[h].state # "unknown"

MarkedLoaded(call) ==
    {call.trace[i].k : i \in {j \in 1..Len(call.trace) : call.trace[j].e = "markLoaded"}}

\* C14: in every reachable state every descriptor with loaded = TRUE has all
\* the accounts the store holds under its prefix in the Account Cache; and a
\* call marks a prefix loaded only when it returns without error after an
\* account Walk that left every such account with a cache entry.
C14_LoadedMeansMaterialized ==
    [][/\ \A k \in TrieKeys :
            (trieIndex'[k].present /\ trieIndex'[k].loaded) => Materialized(accountCache', k)
       /\ \A k \in MarkedLoaded(lastCall') :
            /\ lastCall'.err = NoErr
            /\ ScannedPrefix(lastCall'.trace) = k
            /\ Materialized(accountCache', k)
       /\ \A k \in TrieKeys :
            (trieIndex'[k].loaded /\ ~trieIndex[k].loaded) => k \in MarkedLoaded(lastCall')]_vars

\* One read marked loaded a prefix with two stored accounts below it, both of
\* which the Walk wrote into the Account Cache.
C14_Witness ==
    /\ IsRead(lastCall)
    /\ MarkedLoaded(lastCall) # {}
    /\ \A k \in MarkedLoaded(lastCall) :
          /\ trieIndex[k].loaded
          /\ Cardinality(StoredUnder(k)) = 2
          /\ \A h \in StoredUnder(k) :
                /\ accountCache[h].state = "present"
                /\ \E i \in 1..Len(lastCall.trace) :
                      lastCall.trace[i] = Ev("setRead", h)

TrieScans(call) == CountEvents(call.trace, {"walkTrie"})

PointLookups(call) == CountEvents(call.trace, {"get"})

EventKeys(call, e) ==
    {call.trace[i].k : i \in {j \in 1..Len(call.trace) : call.trace[j].e = e}}

\* C15: on trieMiss a call makes exactly one Walk of the trie-node bucket,
\* which starts at the encoding of the queried path P (so that no node visited
\* sorts before P) and inserts every node it visits, followed by exactly one
\* more find when the Walk returns without error; no call makes more than one
\* trie-node Walk, more than two finds, or more than one of an account Walk
\* and a point lookup.
C15_SingleTrieScan ==
    [][(IsRead(lastCall') /\ Len(Finds(lastCall')) >= 1) =>
          /\ TrieScans(lastCall') <= 1
          /\ Len(Finds(lastCall')) <= 2
          /\ AccountScans(lastCall') + PointLookups(lastCall') <= 1
          /\ TrieScans(lastCall') = (IF Finds(lastCall')[1].trieMiss THEN 1 ELSE 0)
          /\ lastCall'.err = NoErr =>
                Len(Finds(lastCall')) = (IF Finds(lastCall')[1].trieMiss THEN 2 ELSE 1)
          /\ EventKeys(lastCall', "walkTrie") \subseteq {PathOf(lastCall'.addr)}
          /\ \A k \in EventKeys(lastCall', "insert") : ~LexLess(k, PathOf(lastCall'.addr))
          /\ \A k \in EventKeys(lastCall', "insert") : trieIndex'[k].present]_vars

\* C16: when the address has no Account Cache entry and the deepest descriptor
\* the index holds above its path has hasState = FALSE or loaded = TRUE, the
\* call returns Absent without error, records the address Absent and nothing
\* else, makes no Walk and no point lookup, and leaves the Trie Prefix Index
\* as it was; the same holds, but for the nodes the trie-node Walk inserted,
\* when the descriptor is matched after that Walk.
C16_NoStoreAccessOnNegative ==
    [][/\ (/\ IsRead(lastCall')
           /\ ~GetAccount(accountCache, lastCall'.addr).ok
           /\ LET f == FindDeepestAccountTrie(trieIndex, PathOf(lastCall'.addr))
              IN  ~f.trieMiss /\ (~f.hasState \/ f.alreadyLoaded)) =>
            /\ lastCall'.res = NilAccount
            /\ lastCall'.err = NoErr
            /\ StoreOps(lastCall') = 0
            /\ accountCache' = [accountCache EXCEPT ![Sha(lastCall'.addr)] = AbsentEntry]
            /\ trieIndex' = trieIndex
       /\ (/\ IsRead(lastCall')
           /\ Len(Finds(lastCall')) = 2
           /\ LET f == Finds(lastCall')[2]
              IN  ~f.trieMiss /\ (~f.hasState \/ f.loaded)) =>
            /\ lastCall'.res = NilAccount
            /\ lastCall'.err = NoErr
            /\ AccountScans(lastCall') + PointLookups(lastCall') = 0
            /\ accountCache' = [accountCache EXCEPT ![Sha(lastCall'.addr)] = AbsentEntry]
            /\ \A k \in TrieKeys \ EventKeys(lastCall', "insert") :
                  trieIndex'[k] = trieIndex[k]]_vars

\* A descriptor without state, in the index since an earlier call, answered
\* the read of another address whose record the store holds.
C16_Witness ==
    /\ IsRead(lastCall)
    /\ Len(Finds(lastCall)) = 1
    /\ ~Finds(lastCall)[1].hasState /\ ~Finds(lastCall)[1].loaded
    /\ StoreOps(lastCall) = 0
    /\ lastCall.res = NilAccount
    /\ accountCache[Sha(lastCall.addr)] = AbsentEntry
    /\ dbAccounts[lastCall.addr] # NoValue
    /\ \E a \in Addresses \ {lastCall.addr} : accountCache[Sha(a)] = AbsentEntry

\* C17: a call whose find after the trie-node Walk still matches no prefix
\* makes exactly one point lookup of the address and no account Walk; without
\* error it returns what the lookup yields and caches it, Present or Absent,
\* for that address only; on a lookup error it returns the error and leaves
\* the Account Cache unchanged; either way the Trie Prefix Index differs from
\* before the call only by the nodes the trie-node Walk inserted, and a point
\* lookup is made in no other case.
C17_PointLookupFallback ==
    [][IsRead(lastCall') =>
          /\ (Len(Finds(lastCall')) = 2 /\ Finds(lastCall')[2].trieMiss) =>
                /\ PointLookups(lastCall') = 1
                /\ AccountScans(lastCall') = 0
                /\ lastCall'.err = PointLookup(lastCall'.addr).err
                   \/ lastCall'.err = StoreError
                /\ lastCall'.err = NoErr =>
                      /\ lastCall'.res = PointLookup(lastCall'.addr).acc
                      /\ accountCache' =
                            [accountCache EXCEPT ![Sha(lastCall'.addr)] =
                                IF lastCall'.res = NilAccount THEN AbsentEntry
                                ELSE PresentEntry(lastCall'.res)]
                /\ lastCall'.err # NoErr =>
                      /\ lastCall'.res = NilAccount
                      /\ accountCache' = accountCache
                /\ \A k \in TrieKeys \ EventKeys(lastCall', "insert") :
                      trieIndex'[k] = trieIndex[k]
                /\ \A k \in EventKeys(lastCall', "insert") :
                      ~IsPrefix(k, PathOf(lastCall'.addr))
          /\ PointLookups(lastCall') >= 1 =>
                Len(Finds(lastCall')) = 2 /\ Finds(lastCall')[2].trieMiss]_vars

\* The fallback returned and cached a stored account while the other address
\* stayed uncached and the index stayed empty.
C17_Witness ==
    /\ IsRead(lastCall)
    /\ PointLookups(lastCall) = 1
    /\ lastCall.res = <<lastCall.addr>>
    /\ accountCache[Sha(lastCall.addr)] = PresentEntry(lastCall.res)
    /\ \E a \in Addresses \ {lastCall.addr} :
          dbAccounts[a] # NoValue /\ accountCache[Sha(a)] = Unknown
    /\ \A k \in TrieKeys : ~trieIndex[k].present

\* C18: during a call's account Walk every hashed address that had an Account
\* Cache entry before the call, Present or Absent, whoever wrote it, keeps
\* exactly that entry; the Walk writes only hashed addresses that had none,
\* each stored under the scanned prefix, as Present with its decoded record.
C18_WarmingNeverOverwrites ==
    [][(IsRead(lastCall') /\ AccountScans(lastCall') = 1) =>
          /\ \A h \in HashedKeys :
                accountCache[h].state # "unknown" => accountCache'[h] = accountCache[h]
          /\ \A h \in EventKeys(lastCall', "setRead") :
                /\ accountCache[h].state = "unknown"
                /\ h \in StoredUnder(ScannedPrefix(lastCall'.trace))
                /\ \E j \in 1..Len(dbHashed) :
                      /\ dbHashed[j][1] = h
                      /\ accountCache'[h] = PresentEntry(DecodeForStorage(dbHashed[j][2]).acc)
          /\ \A h \in HashedKeys \ (EventKeys(lastCall', "setRead") \cup {Sha(lastCall'.addr)}) :
                accountCache'[h] = accountCache[h]]_vars

\* A completed Walk passed over a stored account that the cache held as
\* Absent and wrote the target next to it.
C18_Witness ==
    /\ IsRead(lastCall) /\ lastCall.err = NoErr
    /\ AccountScans(lastCall) = 1
    /\ accountCache[Sha(lastCall.addr)].state = "present"
    /\ \E h \in StoredUnder(ScannedPrefix(lastCall.trace)) :
          /\ accountCache[h] = AbsentEntry
          /\ h \notin EventKeys(lastCall, "setRead")

\* The position of the first event named e in a trace, 0 if there is none.
Position(trace, e) ==
    IF \E i \in 1..Len(trace) : trace[i].e = e
    THEN CHOOSE i \in 1..Len(trace) :
            trace[i].e = e /\ \A j \in 1..(i - 1) : trace[j].e # e
    ELSE 0

\* C19: a call makes MarkLoaded at most once, as its last step, with the key
\* that its last find matched and for which the index holds a descriptor, and
\* only after the account Walk for that same key has come back without error.
C19_MarkLoadedAssertion ==
    [][(IsRead(lastCall') /\ MarkedLoaded(lastCall') # {}) =>
          /\ CountEvents(lastCall'.trace, {"markLoaded"}) = 1
          /\ lastCall'.trace[Len(lastCall'.trace)].e = "markLoaded"
          /\ lastCall'.err = NoErr
          /\ AccountScans(lastCall') = 1
          /\ Position(lastCall'.trace, "find") < Position(lastCall'.trace, "walkAccounts")
          /\ Position(lastCall'.trace, "walkAccounts") < Position(lastCall'.trace, "markLoaded")
          /\ \A k \in MarkedLoaded(lastCall') :
                /\ k \in TrieKeys
                /\ trieIndex'[k].present
                /\ k = ScannedPrefix(lastCall'.trace)
                /\ k = Finds(lastCall')[Len(Finds(lastCall'))].k
                /\ ~Finds(lastCall')[Len(Finds(lastCall'))].trieMiss]_vars

\* MarkLoaded of the one-nibble prefix f, matched by the find that followed
\* the trie-node Walk of the same call.
C19_Witness ==
    /\ IsRead(lastCall)
    /\ MarkedLoaded(lastCall) = {TrieKeyTable[2]}
    /\ Len(Finds(lastCall)) = 2
    /\ trieIndex[TrieKeyTable[2]].present /\ trieIndex[TrieKeyTable[2]].loaded
    /\ ~trieIndex[KeyF0].present

\* The keys, in the order written, that a call's account Walk wrote.
RECURSIVE WrittenKeys(_)
WrittenKeys(trace) ==
    IF trace = << >> THEN << >>
    ELSE (IF Head(trace).e = "setRead" THEN <<Head(trace).k>> ELSE << >>)
         \o WrittenKeys(Tail(trace))

Ascending(keys) == \A i \in 1..Len(keys) : \A j \in (i + 1)..Len(keys) : LexLess(keys[i], keys[j])

\* The keys of the entries that the account Walk for prefix k is offered.
VisitedKeys(k) ==
    LET entries == WalkEntries(dbHashed, ScanStartKey(k), ScanFixedBits(k))
    IN  [i \in 1..Len(entries) |-> entries[i][1]]

\* C20: for every prefix K, of even or odd nibble length, the account Walk
\* that ReadAccountData sets up for K is offered, in ascending order, exactly
\* the store's accounts whose hashed path has K as a prefix; a call that walks
\* K writes every such account that had no entry, in ascending order, and
\* touches the entry of no account outside K's subtree but the target's own.
C20_ScanRespectsPrefix ==
    [][/\ \A k \in DOMAIN trieIndex :
            /\ Ascending(VisitedKeys(k))
            /\ {VisitedKeys(k)[i] : i \in 1..Len(VisitedKeys(k))} = StoredUnder(k)
       /\ (IsRead(lastCall') /\ AccountScans(lastCall') = 1 /\ lastCall'.err = NoErr) =>
            LET k == ScannedPrefix(lastCall'.trace)
                w == WrittenKeys(lastCall'.trace)
            IN  /\ Ascending(w)
                /\ {w[i] : i \in 1..Len(w)} =
                      {h \in StoredUnder(k) : accountCache[h].state = "unknown"}
                /\ \A h \in StoredUnder(k) : accountCache'[h].state # "unknown"
                /\ \A h \in (DOMAIN accountCache) \ (StoredUnder(k) \cup {Sha(lastCall'.addr)}) :
                      accountCache'[h] = accountCache[h]]_vars

\* A Walk of the one-nibble prefix f wrote the three accounts stored below f
\* and left the stored account at 02d0, outside f, without an entry.
C20_Witness ==
    /\ IsRead(lastCall) /\ lastCall.err = NoErr
    /\ ScannedPrefix(lastCall.trace) = TrieKeyTable[2]
    /\ WrittenKeys(lastCall.trace) = <<ShaTable[1], ShaTable[2], ShaTable[3]>>
    /\ dbAccounts[4] # NoValue
    /\ accountCache[ShaTable[4]] = Unknown

\* C21: a descriptor that is in the Trie Prefix Index with loaded = TRUE is
\* still there with loaded = TRUE after every later ReadAccountData call, a
\* call that hits trieMiss, walks the trie-node bucket again and inserts a
\* descriptor for the same prefix included.
C21_LoadedMonotonic ==
    [][\A k \in DOMAIN trieIndex :
          (trieIndex[k].present /\ trieIndex[k].loaded) =>
              (trieIndex'[k].present /\ trieIndex'[k].loaded)]_vars

====
